---- MODULE Spec2Model ----
(***************************************************************************)
(* Model of kbd-layout-indicator's Wayland keyboard monitor                *)
(* (keyboard.py): XkbParser and WaylandKeyboardMonitor, together with the  *)
(* compositor at the other end of the Unix socket.  The receive stream is  *)
(* modelled byte by byte, the requests are the bytes _build_msg produces.  *)
(***************************************************************************)
EXTENDS Integers, Sequences, FiniteSets, TLC

(***************************************************************************)
(* Bounds of the model.                                                    *)
(***************************************************************************)
\* bytes received and not yet framed, or still in flight from the compositor
MaxWire == 28
\* the same when the compositor's whole behaviour is explored and every
\* read takes all there is (the "handshake" scenario)
MaxBurst == 40
\* file descriptors the client process can hold open or in flight
MaxFds == 2
\* largest group index a modifiers event carries
MaxGroup == 2

(***************************************************************************)
(* Program constants.                                                      *)
(***************************************************************************)
WL_DISPLAY_ID == 1
WL_DISPLAY_SYNC == 0
WL_DISPLAY_GET_REGISTRY == 1
WL_DISPLAY_ERROR == 0
WL_DISPLAY_DELETE_ID == 1
WL_REGISTRY_BIND == 0
WL_REGISTRY_GLOBAL == 0
WL_REGISTRY_GLOBAL_REMOVE == 1
WL_SEAT_GET_KEYBOARD == 1
WL_SEAT_CAPABILITIES == 0
WL_SEAT_NAME == 1
WL_SEAT_CAP_KEYBOARD == 2
WL_KEYBOARD_KEYMAP == 0
WL_KEYBOARD_ENTER == 1
WL_KEYBOARD_LEAVE == 2
WL_KEYBOARD_KEY == 3
WL_KEYBOARD_MODIFIERS == 4
WL_KEYBOARD_REPEAT_INFO == 5
WL_CALLBACK_DONE == 0
\* fmt != 1 in _on_keymap
XKB_V1 == 1
\* version = 5 in _bind_seat
SEAT_VERSION == 5
\* max_fds = 4 in _read_and_dispatch
MAX_RECV_FDS == 4
\* len(buf) >= 8 and msg_size < 8 in _dispatch_messages
HEADER_SIZE == 8
\* self._next_id = 2 in __init__
FIRST_ID == 2

\* Python's None, for the Optional[int] fields (object IDs and global names
\* are unsigned on the wire, so no received value equals it)
None == 0 - 1

(***************************************************************************)
(* Wire codec: struct.pack / struct.unpack_from, little-endian.            *)
(***************************************************************************)
_pack_uint(v) ==
    << v % 256, (v \div 256) % 256, (v \div 65536) % 256, (v \div 16777216) % 256 >>

Zeros(n) == [i \in 1..n |-> 0]

\* s is the UTF-8 encoding of the string, a sequence of bytes
_pack_string(s) ==
    LET b == s \o <<0>>
        length == Len(b)
        pad == (4 - (length % 4)) % 4
    IN  _pack_uint(length) \o b \o Zeros(pad)

_build_msg(obj_id, opcode, payload) ==
    LET size == 8 + Len(payload)
    IN  _pack_uint(obj_id) \o _pack_uint(size * 65536 + opcode) \o payload

\* struct.unpack_from("<I", buf, off) needs off + 4 bytes
CanUnpack(buf, off, n) == Len(buf) >= off + 4 * n

unpack_u32(buf, off) ==
    buf[off + 1] + 256 * buf[off + 2] + 65536 * buf[off + 3] + 16777216 * buf[off + 4]

\* buf[a:b] of Python, 0-based, clipped to the buffer
Slice(buf, a, b) ==
    LET hi == IF b > Len(buf) THEN Len(buf) ELSE b
    IN  IF hi <= a THEN << >> ELSE SubSeq(buf, a + 1, hi)

\* "wl_seat" and "wl_shm" in UTF-8
IFACE_WL_SEAT == << 119, 108, 95, 115, 101, 97, 116 >>
IFACE_WL_SHM == << 119, 108, 95, 115, 104, 109 >>


(***************************************************************************)
(* XkbParser.  A keymap file is what the compositor put behind the fd:     *)
(* whether it can be mapped and decoded as UTF-8, what libxkbcommon makes  *)
(* of it (compiles or not, the raw layout names it reports, "" for a NULL  *)
(* or empty name) and what the two regular expressions of _regex_fallback  *)
(* find in its text, in text order.                                        *)
(***************************************************************************)
KeymapFile(readable, compiles, raw, re_layout, re_group) ==
    [ readable |-> readable, compiles |-> compiles, raw |-> raw,
      re_layout |-> re_layout, re_group |-> re_group ]

KeymapFiles ==
    { KeymapFile(FALSE, FALSE, << >>, << >>, << >>),
      KeymapFile(TRUE, TRUE, << "English (US)" >>, << >>, << >>),
      KeymapFile(TRUE, TRUE, << "English (US)", "German" >>, << >>,
                 << <<1, "English (US)">>, <<2, "German">> >>),
      KeymapFile(TRUE, TRUE, << "", "German" >>, << >>, << <<2, "German">> >>),
      KeymapFile(TRUE, TRUE, << >>, << >>, << >>),
      KeymapFile(TRUE, FALSE, << >>, << "us" >>, << <<1, "English (US)">> >>),
      KeymapFile(TRUE, FALSE, << >>, << >>, << <<2, "DE">>, <<1, "FR">> >>),
      KeymapFile(TRUE, FALSE, << >>, << >>, << >>) }

\* a file that cannot be mapped; it stands for the file of a descriptor
\* no keymap event uses
DefaultFile == KeymapFile(FALSE, FALSE, << >>, << >>, << >>)

\* f"Group{i}"
GroupLabel(i) == << "Group0", "Group1", "Group2", "Group3" >>[i + 1]

\* names.sort(key=lambda x: int(x[0])): a stable sort on the group number
RECURSIVE InsertByGroup(_, _)
InsertByGroup(sorted, x) ==
    IF sorted = << >> THEN << x >>
    ELSE IF sorted[Len(sorted)][1] <= x[1] THEN Append(sorted, x)
    ELSE Append(InsertByGroup(SubSeq(sorted, 1, Len(sorted) - 1), x),
                sorted[Len(sorted)])

RECURSIVE SortByGroup(_)
SortByGroup(s) ==
    IF s = << >> THEN << >>
    ELSE InsertByGroup(SortByGroup(SubSeq(s, 1, Len(s) - 1)), s[Len(s)])

_regex_fallback(file) ==
    LET first == file.re_layout
        second == SortByGroup(file.re_group)
        names == IF first # << >> THEN first
                 ELSE [i \in 1..Len(second) |-> second[i][2]]
    IN  IF names # << >> THEN names ELSE << "Unknown" >>

\* XkbParser.parse; ctx is self._ctx (FALSE when the library is missing or
\* the context has been released)
parse(ctx, file) ==
    IF ~ctx THEN _regex_fallback(file)
    ELSE IF ~file.compiles THEN _regex_fallback(file)
    ELSE [i \in 1..Len(file.raw) |->
            IF file.raw[i] # "" THEN file.raw[i] ELSE GroupLabel(i - 1)]


(***************************************************************************)
(* State.                                                                  *)
(***************************************************************************)
VARIABLES
    scenario,       \* the part of the compositor's behaviour this run explores
    pc,             \* where the embedder is: "new", "roundtrip1", "roundtrip2"
                    \* (inside connect()), "running", "connect_raised"
    mon,            \* the fields of the WaylandKeyboardMonitor object
    out,            \* the requests written to the socket, in order
    wire,           \* bytes the compositor has written and the client not read
    wire_fds,       \* for each fd in flight, the offset in wire of the first
                    \* byte of the message it was sent with
    server_closed,  \* the compositor has closed its end of the socket
    fdtab,          \* the client's descriptor table: fd -> open or not
    last            \* what the last call of the embedder did (its name, the
                    \* exception it raised, the notifications it delivered,
                    \* the events it dispatched); idle after a compositor step

vars == << scenario, pc, mon, out, wire, wire_fds, server_closed, fdtab, last >>

Fds == 1..MaxFds

\* WaylandKeyboardMonitor.__init__; ctx is XkbParser.__init__'s outcome
NewMonitor(ctx) ==
    [ sock |-> "none", xkb_ctx |-> ctx,
      next_id |-> FIRST_ID, registry_id |-> None, seat_id |-> None,
      keyboard_id |-> None, callback_id |-> None,
      seat_global_name |-> None,
      layout_names |-> << >>, current_group |-> 0,
      recv_buf |-> << >>, recv_fds |-> << >>,
      pending_sync |-> None, sync_done |-> FALSE ]

Idle == [ op |-> "none", exc |-> "none", notes |-> << >>, log |-> << >>,
          closed |-> << >>, eof |-> FALSE, unrefs |-> 0, sock_closes |-> 0,
          nsent |-> 0 ]

(***************************************************************************)
(* A call runs on a world w: the monitor, what it has sent, the descriptor *)
(* table, and the record of the call (notes: the on_layout_change calls,   *)
(* closed: the os.close calls, log: one entry per dispatched event, exc:   *)
(* the exception that ended it).  peer_closed and files are the            *)
(* environment the call reads: whether the compositor has closed, and the  *)
(* keymap file behind each received fd.                                    *)
(***************************************************************************)
World(op, files) ==
    [ m |-> mon, out |-> out, fdtab |-> fdtab, peer_closed |-> server_closed,
      files |-> files, op |-> op, exc |-> "none", notes |-> << >>,
      log |-> << >>, closed |-> << >>, eof |-> FALSE,
      unrefs |-> 0, sock_closes |-> 0 ]

Raise(w, e) == [w EXCEPT !.exc = e]

\* _alloc_id handing out the same ID again
_alloc_id_NoIncrement(w) == w

_alloc_id(w) == [w EXCEPT !.m.next_id = @ + 1]

\* sendall on a socket whose peer has closed fails with EPIPE
_send(w, data) ==
    IF w.peer_closed THEN Raise(w, "BrokenPipeError")
    ELSE [w EXCEPT !.out = Append(@, data)]

os_close(w, fd) ==
    IF ~w.fdtab[fd] THEN Raise(w, "OSError")
    ELSE [w EXCEPT !.fdtab[fd] = FALSE, !.closed = Append(@, fd)]

(***************************************************************************)
(* Keyboard event handlers.                                                *)
(***************************************************************************)
\* _notify falling back to the last layout instead of the first
ResolvedName_LastFallback(layout_names, group) ==
    IF layout_names # << >> /\ group < Len(layout_names)
    THEN layout_names[group + 1]
    ELSE IF layout_names # << >> THEN layout_names[Len(layout_names)]
    ELSE "??"

ResolvedName(layout_names, group) ==
    IF layout_names # << >> /\ group < Len(layout_names)
    THEN layout_names[group + 1]
    ELSE IF layout_names # << >> THEN layout_names[1]
    ELSE "??"

_notify(w) ==
    [w EXCEPT !.notes =
        Append(@, << ResolvedName(w.m.layout_names, w.m.current_group),
                     w.m.current_group >>)]

\* _on_modifiers without its comparison with the stored group
_on_modifiers_Always(w, group) ==
    _notify([w EXCEPT !.m.current_group = group])

_on_modifiers(w, group) ==
    IF group # w.m.current_group
    THEN _notify([w EXCEPT !.m.current_group = group])
    ELSE w

\* _on_keymap going back to group 0 with the new keymap
_on_keymap_ResetsGroup(w, fmt, fd, size) ==
    IF fd < 0 THEN w
    ELSE IF fmt # XKB_V1 THEN os_close(w, fd)
    ELSE IF ~w.files[fd].readable THEN os_close(w, fd)
    ELSE LET w1 == os_close(w, fd)
         IN  IF w1.exc # "none" THEN w1
             ELSE _notify([w1 EXCEPT !.m.layout_names =
                                        parse(w.m.xkb_ctx, w.files[fd]),
                                     !.m.current_group = 0])

\* _on_keymap returning on a format other than 1 without closing the fd
_on_keymap_LeakOnBadFormat(w, fmt, fd, size) ==
    IF fd < 0 THEN w
    ELSE IF fmt # XKB_V1 THEN w
    ELSE IF ~w.files[fd].readable THEN os_close(w, fd)
    ELSE LET w1 == os_close(w, fd)
         IN  IF w1.exc # "none" THEN w1
             ELSE _notify([w1 EXCEPT !.m.layout_names =
                                        parse(w.m.xkb_ctx, w.files[fd])])

\* _on_keymap closing the fd after the mapping only, not in a finally
_on_keymap_LeakOnFailure(w, fmt, fd, size) ==
    IF fd < 0 THEN w
    ELSE IF fmt # XKB_V1 THEN os_close(w, fd)
    ELSE IF ~w.files[fd].readable THEN w
    ELSE LET w1 == os_close(w, fd)
         IN  IF w1.exc # "none" THEN w1
             ELSE _notify([w1 EXCEPT !.m.layout_names =
                                        parse(w.m.xkb_ctx, w.files[fd])])

_on_keymap(w, fmt, fd, size) ==
    IF fd < 0 THEN w
    ELSE IF fmt # XKB_V1 THEN os_close(w, fd)
    ELSE IF ~w.files[fd].readable THEN os_close(w, fd)
    ELSE LET w1 == os_close(w, fd)
         IN  IF w1.exc # "none" THEN w1
             ELSE _notify([w1 EXCEPT !.m.layout_names =
                                        parse(w.m.xkb_ctx, w.files[fd])])


(***************************************************************************)
(* Event routing.                                                          *)
(***************************************************************************)
\* _consume_fd with pop() for pop(0): the newest fd first
_consume_fd_Lifo(w) ==
    IF w.m.recv_fds # << >>
    THEN [ fd |-> w.m.recv_fds[Len(w.m.recv_fds)],
           w |-> [w EXCEPT !.m.recv_fds = SubSeq(@, 1, Len(@) - 1)] ]
    ELSE [ fd |-> 0 - 1, w |-> w ]

\* the pair (fd, world after the pop) of _consume_fd
_consume_fd(w) ==
    IF w.m.recv_fds # << >>
    THEN [ fd |-> Head(w.m.recv_fds), w |-> [w EXCEPT !.m.recv_fds = Tail(@)] ]
    ELSE [ fd |-> 0 - 1, w |-> w ]

_handle_display_event(w, opcode, payload) ==
    IF opcode = WL_DISPLAY_ERROR
    THEN IF CanUnpack(payload, 0, 3) THEN w ELSE Raise(w, "struct.error")
    ELSE w

\* _handle_registry_event keeping the first wl_seat it is told of
_handle_registry_event_FirstWins(w, opcode, payload) ==
    IF opcode = WL_REGISTRY_GLOBAL
    THEN IF ~CanUnpack(payload, 0, 2) THEN Raise(w, "struct.error")
         ELSE LET name == unpack_u32(payload, 0)
                  str_len == unpack_u32(payload, 4)
                  iface == Slice(payload, 8, 8 + str_len - 1)
                  padded == 8 + str_len + ((4 - (str_len % 4)) % 4)
              IN  IF ~CanUnpack(payload, padded, 1) THEN Raise(w, "struct.error")
                  ELSE IF iface = IFACE_WL_SEAT /\ w.m.seat_global_name = None
                  THEN [w EXCEPT !.m.seat_global_name = name]
                  ELSE w
    ELSE w

_handle_registry_event(w, opcode, payload) ==
    IF opcode = WL_REGISTRY_GLOBAL
    THEN IF ~CanUnpack(payload, 0, 2) THEN Raise(w, "struct.error")
         ELSE LET name == unpack_u32(payload, 0)
                  str_len == unpack_u32(payload, 4)
                  iface == Slice(payload, 8, 8 + str_len - 1)
                  padded == 8 + str_len + ((4 - (str_len % 4)) % 4)
              IN  IF ~CanUnpack(payload, padded, 1) THEN Raise(w, "struct.error")
                  ELSE IF iface = IFACE_WL_SEAT
                  THEN [w EXCEPT !.m.seat_global_name = name]
                  ELSE w
    ELSE w

_bind_keyboard(w) ==
    LET w1 == [_alloc_id(w) EXCEPT !.m.keyboard_id = w.m.next_id]
    IN  _send(w1, _build_msg(w1.m.seat_id, WL_SEAT_GET_KEYBOARD,
                             _pack_uint(w1.m.keyboard_id)))

\* _handle_seat_event leaving the keyboard for after the handshake
_handle_seat_event_AfterHandshake(w, opcode, payload) ==
    IF opcode = WL_SEAT_CAPABILITIES
    THEN IF ~CanUnpack(payload, 0, 1) THEN Raise(w, "struct.error")
         ELSE LET caps == unpack_u32(payload, 0)
              IN  IF (caps \div WL_SEAT_CAP_KEYBOARD) % 2 = 1
                     /\ w.m.keyboard_id = None
                     /\ w.m.sync_done
                  THEN _bind_keyboard(w)
                  ELSE w
    ELSE w

\* _handle_seat_event without its test for an existing keyboard
_handle_seat_event_Rebinds(w, opcode, payload) ==
    IF opcode = WL_SEAT_CAPABILITIES
    THEN IF ~CanUnpack(payload, 0, 1) THEN Raise(w, "struct.error")
         ELSE LET caps == unpack_u32(payload, 0)
              IN  IF (caps \div WL_SEAT_CAP_KEYBOARD) % 2 = 1
                  THEN _bind_keyboard(w)
                  ELSE w
    ELSE w

\* _handle_seat_event creating the keyboard on any event of the seat
_handle_seat_event_OnAnyEvent(w, opcode, payload) ==
    IF w.m.keyboard_id = None THEN _bind_keyboard(w) ELSE w

_handle_seat_event(w, opcode, payload) ==
    IF opcode = WL_SEAT_CAPABILITIES
    THEN IF ~CanUnpack(payload, 0, 1) THEN Raise(w, "struct.error")
         ELSE LET caps == unpack_u32(payload, 0)
              IN  IF (caps \div WL_SEAT_CAP_KEYBOARD) % 2 = 1
                     /\ w.m.keyboard_id = None
                  THEN _bind_keyboard(w)
                  ELSE w
    ELSE w

\* _handle_keyboard_event going back to group 0 when the keyboard focus enters
_handle_keyboard_event_EnterResets(w, opcode, payload) ==
    IF opcode = WL_KEYBOARD_KEYMAP
    THEN IF ~CanUnpack(payload, 0, 1) THEN Raise(w, "struct.error")
         ELSE LET fmt == unpack_u32(payload, 0)
                  c == _consume_fd(w)
              IN  IF ~CanUnpack(payload, 4, 1) THEN Raise(c.w, "struct.error")
                  ELSE _on_keymap(c.w, fmt, c.fd, unpack_u32(payload, 4))
    ELSE IF opcode = WL_KEYBOARD_MODIFIERS
    THEN IF ~CanUnpack(payload, 0, 5) THEN Raise(w, "struct.error")
         ELSE _on_modifiers(w, unpack_u32(payload, 16))
    ELSE IF opcode = WL_KEYBOARD_ENTER THEN _on_modifiers(w, 0)
    ELSE w

_handle_keyboard_event(w, opcode, payload) ==
    IF opcode = WL_KEYBOARD_KEYMAP
    THEN IF ~CanUnpack(payload, 0, 1) THEN Raise(w, "struct.error")
         ELSE LET fmt == unpack_u32(payload, 0)
                  c == _consume_fd(w)
              IN  IF ~CanUnpack(payload, 4, 1) THEN Raise(c.w, "struct.error")
                  ELSE _on_keymap(c.w, fmt, c.fd, unpack_u32(payload, 4))
    ELSE IF opcode = WL_KEYBOARD_MODIFIERS
    THEN IF ~CanUnpack(payload, 0, 5) THEN Raise(w, "struct.error")
         ELSE _on_modifiers(w, unpack_u32(payload, 16))
    ELSE w

\* _handle_event taking every callback it ever created for the current one
Route_AnyCallback(m, obj_id) ==
    IF obj_id = WL_DISPLAY_ID THEN "display"
    ELSE IF obj_id = m.registry_id THEN "registry"
    ELSE IF obj_id = m.seat_id THEN "seat"
    ELSE IF obj_id = m.keyboard_id THEN "keyboard"
    ELSE IF obj_id >= FIRST_ID /\ obj_id < m.next_id THEN "callback"
    ELSE "dropped"

\* which branch of _handle_event takes the event
Route(m, obj_id) ==
    IF obj_id = WL_DISPLAY_ID THEN "display"
    ELSE IF obj_id = m.registry_id THEN "registry"
    ELSE IF obj_id = m.seat_id THEN "seat"
    ELSE IF obj_id = m.keyboard_id THEN "keyboard"
    ELSE IF obj_id = m.callback_id THEN "callback"
    ELSE "dropped"

_handle_event(w, obj_id, opcode, payload) ==
    LET r == Route(w.m, obj_id)
    IN  IF r = "display" THEN _handle_display_event(w, opcode, payload)
        ELSE IF r = "registry" THEN _handle_registry_event(w, opcode, payload)
        ELSE IF r = "seat" THEN _handle_seat_event(w, opcode, payload)
        ELSE IF r = "keyboard" THEN _handle_keyboard_event(w, opcode, payload)
        ELSE IF r = "callback"
        THEN IF opcode = WL_CALLBACK_DONE THEN [w EXCEPT !.m.sync_done = TRUE]
             ELSE w
        ELSE w

\* the world after _handle_event, with the event added to the call's log:
\* what it was, which handler took it, the tracker before and after, the
\* notifications, closes and requests it made, the fd it popped, the file
\* behind that fd, whether the fd is still open, the exception raised
Logged(w, obj_id, opcode, payload) ==
    LET w1 == _handle_event(w, obj_id, opcode, payload)
        popped == Len(w1.m.recv_fds) < Len(w.m.recv_fds)
        fd == IF popped THEN Head(w.m.recv_fds) ELSE None
        entry == [ obj_id |-> obj_id, opcode |-> opcode, payload |-> payload,
                   handler |-> Route(w.m, obj_id),
                   pre |-> w.m, post |-> w1.m,
                   notes |-> SubSeq(w1.notes, Len(w.notes) + 1, Len(w1.notes)),
                   closed |-> SubSeq(w1.closed, Len(w.closed) + 1, Len(w1.closed)),
                   sent |-> SubSeq(w1.out, Len(w.out) + 1, Len(w1.out)),
                   fd |-> fd,
                   file |-> IF popped THEN w.files[fd] ELSE DefaultFile,
                   open_after |-> IF popped THEN w1.fdtab[fd] ELSE FALSE,
                   exc |-> w1.exc ]
    IN  [w1 EXCEPT !.log = Append(@, entry)]

(***************************************************************************)
(* Framing.                                                                *)
(***************************************************************************)
Drop(buf, n) == SubSeq(buf, n + 1, Len(buf))

\* _dispatch_messages with an `if` for its `while`: one message per read
_dispatch_messages_OnePerRead(w) ==
    LET buf == w.m.recv_buf
    IN  IF Len(buf) < HEADER_SIZE THEN w
        ELSE LET obj_id == unpack_u32(buf, 0)
                 size_op == unpack_u32(buf, 4)
                 opcode == size_op % 65536
                 msg_size == size_op \div 65536
             IN  IF msg_size < HEADER_SIZE \/ Len(buf) < msg_size THEN w
                 ELSE Logged([w EXCEPT !.m.recv_buf = Drop(buf, msg_size)],
                             obj_id, opcode, Slice(buf, 8, msg_size))

RECURSIVE _dispatch_messages(_)
_dispatch_messages(w) ==
    LET buf == w.m.recv_buf
    IN  IF Len(buf) < HEADER_SIZE THEN w
        ELSE LET obj_id == unpack_u32(buf, 0)
                 size_op == unpack_u32(buf, 4)
                 opcode == size_op % 65536
                 msg_size == size_op \div 65536
             IN  IF msg_size < HEADER_SIZE \/ Len(buf) < msg_size THEN w
                 ELSE LET payload == Slice(buf, 8, msg_size)
                          w1 == Logged([w EXCEPT !.m.recv_buf = Drop(buf, msg_size)],
                                       obj_id, opcode, payload)
                      IN  IF w1.exc # "none" THEN w1
                          ELSE _dispatch_messages(w1)

\* the lowest free descriptors, one for each arriving fd (the kernel
\* installs at most MAX_RECV_FDS of them and discards the rest)
RECURSIVE InstallFds(_, _, _)
InstallFds(w, n, taken) ==
    IF n = 0 \/ taken = MAX_RECV_FDS THEN w
    ELSE LET free == { f \in Fds : ~w.fdtab[f] }
             fd == CHOOSE f \in free : \A g \in free : f <= g
         IN  InstallFds([w EXCEPT !.fdtab[fd] = TRUE,
                                  !.m.recv_fds = Append(@, fd)],
                        n - 1, taken + 1)

\* _read_and_dispatch once recvmsg has returned data and nfds descriptors;
\* empty data is the end of the stream
_read_and_dispatch(w, data, nfds) ==
    IF data = << >> THEN [w EXCEPT !.eof = TRUE]
    ELSE LET w1 == InstallFds(w, nfds, 0)
         IN  _dispatch_messages([w1 EXCEPT !.m.recv_buf = @ \o data])


(***************************************************************************)
(* The compositor.  It writes whole frames; an event is the frame and the  *)
(* number of descriptors sent with it.                                     *)
(***************************************************************************)
\* a frame whose header declares `size` whatever the payload's length
Frame(obj_id, opcode, size, payload) ==
    _pack_uint(obj_id) \o _pack_uint(size * 65536 + opcode) \o payload

Event(bytes, nfds) == [ bytes |-> bytes, nfds |-> nfds ]

DisplayEvents ==
    { Event(_build_msg(WL_DISPLAY_ID, WL_DISPLAY_ERROR,
                       _pack_uint(2) \o _pack_uint(1) \o _pack_string(<<101>>)), 0),
      Event(_build_msg(WL_DISPLAY_ID, WL_DISPLAY_DELETE_ID, _pack_uint(3)), 0) }

\* the global names under which the compositor announces its seats
SeatNames == { 7, 8 }

RegistryEvents(id) ==
    { Event(_build_msg(id, WL_REGISTRY_GLOBAL,
                       _pack_uint(n) \o _pack_string(IFACE_WL_SEAT) \o _pack_uint(7)), 0)
        : n \in SeatNames }
    \cup
    { Event(_build_msg(id, WL_REGISTRY_GLOBAL,
                       _pack_uint(1) \o _pack_string(IFACE_WL_SHM) \o _pack_uint(1)), 0),
      Event(_build_msg(id, WL_REGISTRY_GLOBAL_REMOVE, _pack_uint(7)), 0) }

CallbackEvents(id) ==
    { Event(_build_msg(id, WL_CALLBACK_DONE, _pack_uint(0)), 0) }

SeatEvents(id) ==
    { Event(_build_msg(id, WL_SEAT_CAPABILITIES, _pack_uint(caps)), 0)
        : caps \in { 1, 3 } }
    \cup
    { Event(_build_msg(id, WL_SEAT_NAME, _pack_string(<<115>>)), 0) }

\* the first opcode wl_keyboard does not have
UnknownOpcode == WL_KEYBOARD_REPEAT_INFO + 1

\* keymap events with their fd or without it, modifiers events, and the
\* events the client ignores, one of them with an unknown opcode
KeyboardEvents(id) ==
    { Event(_build_msg(id, WL_KEYBOARD_KEYMAP, _pack_uint(fmt) \o _pack_uint(4)), nfds)
        : fmt \in { 0, 1 }, nfds \in 0..1 }
    \cup
    { Event(_build_msg(id, WL_KEYBOARD_MODIFIERS,
                       _pack_uint(42) \o Zeros(12) \o _pack_uint(g)), 0)
        : g \in 0..MaxGroup }
    \cup
    { Event(_build_msg(id, WL_KEYBOARD_ENTER, Zeros(12)), 0),
      Event(_build_msg(id, WL_KEYBOARD_LEAVE, Zeros(8)), 0),
      Event(_build_msg(id, WL_KEYBOARD_KEY, Zeros(16)), 0),
      Event(_build_msg(id, WL_KEYBOARD_REPEAT_INFO, Zeros(8)), 0),
      Event(_build_msg(id, UnknownOpcode, Zeros(4)), 0) }

\* keymap events that come with no fd, with one, with more than one, a
\* keymap event cut short (the format, no size), and a switch to group 1
KeymapEvents(id) ==
    { Event(_build_msg(id, WL_KEYBOARD_KEYMAP, _pack_uint(XKB_V1) \o _pack_uint(4)), nfds)
        : nfds \in 0..MaxFds }
    \cup
    { Event(_build_msg(id, WL_KEYBOARD_KEYMAP, _pack_uint(XKB_V1)), 1),
      Event(_build_msg(id, WL_KEYBOARD_MODIFIERS,
                       _pack_uint(42) \o Zeros(12) \o _pack_uint(1)), 0) }

\* frames no well-behaved compositor writes: a declared size below the
\* header's, and an event for an object the client never created
BadFrame == Event(Frame(WL_DISPLAY_ID, WL_DISPLAY_DELETE_ID, 4, _pack_uint(3)), 0)

Unrouted(payload) == Event(_build_msg(15, 0, payload), 0)

StrayEvents == { BadFrame, Unrouted(_pack_uint(0)) }

(***************************************************************************)
(* One run talks to one compositor, and `scenario` says which part of its  *)
(* behaviour the run explores:                                             *)
(*   "layouts"    a handshake by the book (one seat, a keyboard), then     *)
(*                any keyboard events, each keymap with at most its own    *)
(*                fd, and any keymap file; every read takes all there is;  *)
(*   "handshake"  any registry, callback, seat and display events, stray   *)
(*                object IDs, a compositor that goes away; of the keyboard *)
(*                a switch to group 1; every read takes all there is;      *)
(*   "fds"        keymap events with too few or too many fds or cut     *)
(*                short, a keymap file that cannot be mapped; a handshake  *)
(*                by the book; every read takes all there is;              *)
(*   "stream"     reads that stop anywhere in the byte stream, frames      *)
(*                with an impossible size; a handshake by the book.        *)
(***************************************************************************)
Scenarios == { "layouts", "handshake", "fds", "stream" }

SeatAnnounced(m) ==
    Event(_build_msg(m.registry_id, WL_REGISTRY_GLOBAL,
                     _pack_uint(7) \o _pack_string(IFACE_WL_SEAT) \o _pack_uint(7)), 0)

HasKeyboard(m) ==
    Event(_build_msg(m.seat_id, WL_SEAT_CAPABILITIES,
                     _pack_uint(WL_SEAT_CAP_KEYBOARD)), 0)

KeymapSent(m) ==
    Event(_build_msg(m.keyboard_id, WL_KEYBOARD_KEYMAP,
                     _pack_uint(XKB_V1) \o _pack_uint(4)), 1)

GroupOne(m) ==
    Event(_build_msg(m.keyboard_id, WL_KEYBOARD_MODIFIERS,
                     _pack_uint(42) \o Zeros(12) \o _pack_uint(1)), 0)

\* the next events of a handshake by the book
ByTheBook(m, keyboard) ==
    IF m.keyboard_id # None THEN keyboard
    ELSE IF m.seat_id # None THEN { HasKeyboard(m) }
    ELSE { SeatAnnounced(m) }

Sendable(sc, m, where) ==
    IF sc = "layouts"
    THEN ByTheBook(m, KeyboardEvents(m.keyboard_id))
         \cup (IF where = "running" THEN { } ELSE CallbackEvents(m.pending_sync))
    ELSE IF sc = "handshake"
    THEN DisplayEvents \cup StrayEvents \cup RegistryEvents(m.registry_id)
         \cup UNION { CallbackEvents(id)
                        : id \in (FIRST_ID..(m.next_id - 1))
                                 \ { m.registry_id, m.seat_id, m.keyboard_id } }
         \cup (IF m.seat_id # None THEN SeatEvents(m.seat_id) ELSE { })
         \cup (IF m.keyboard_id # None THEN { GroupOne(m) } ELSE { })
    ELSE IF sc = "fds"
    THEN ByTheBook(m, KeymapEvents(m.keyboard_id))
         \cup (IF where = "running" THEN { } ELSE CallbackEvents(m.pending_sync))
    ELSE { BadFrame, Unrouted(<< >>) }
         \cup ByTheBook(m, { KeymapSent(m), GroupOne(m) })
         \cup (IF where = "running" THEN { } ELSE CallbackEvents(m.pending_sync))

\* how many bytes may be in flight or buffered
Room(sc) == IF sc = "handshake" THEN MaxBurst ELSE MaxWire

\* how many bytes a recvmsg may return when n are in flight
Chunks(sc, n) == IF sc = "stream" THEN 1..n ELSE { n }

\* the keymap files the compositor serves
Served(sc) ==
    IF sc = "layouts" THEN KeymapFiles
    ELSE IF sc = "fds"
    THEN { DefaultFile, KeymapFile(TRUE, TRUE, << "English (US)" >>, << >>, << >>) }
    ELSE { KeymapFile(TRUE, TRUE, << "English (US)" >>, << >>, << >>) }

\* descriptors open in the client or on their way to it
FdsInUse == Cardinality({ f \in Fds : fdtab[f] }) + Len(wire_fds)

ServerSend(ev) ==
    /\ pc \in { "roundtrip1", "roundtrip2", "running" }
    /\ mon.sock = "open"
    /\ ~server_closed
    /\ Len(mon.recv_buf) + Len(wire) + Len(ev.bytes) <= Room(scenario)
    /\ FdsInUse + ev.nfds <= MaxFds
    /\ wire' = wire \o ev.bytes
    /\ wire_fds' = wire_fds \o [i \in 1..ev.nfds |-> Len(wire)]
    /\ last' = Idle
    /\ UNCHANGED << scenario, pc, mon, out, server_closed, fdtab >>

ServerClose ==
    /\ scenario # "layouts"
    /\ pc \in { "roundtrip1", "roundtrip2", "running" }
    /\ mon.sock = "open"
    /\ ~server_closed
    /\ server_closed' = TRUE
    /\ last' = Idle
    /\ UNCHANGED << scenario, pc, mon, out, wire, wire_fds, fdtab >>


(***************************************************************************)
(* The embedder's calls.                                                   *)
(***************************************************************************)
\* the state a call leaves behind
Commit(w) ==
    /\ mon' = w.m
    /\ out' = w.out
    /\ fdtab' = w.fdtab
    /\ last' = [ op |-> w.op, exc |-> w.exc, notes |-> w.notes, log |-> w.log,
                 closed |-> w.closed, eof |-> w.eof,
                 unrefs |-> w.unrefs, sock_closes |-> w.sock_closes,
                 nsent |-> Len(w.out) - Len(out) ]

\* the keymap files a call may find behind the descriptors in `popped`
FileChoices(popped) ==
    { [f \in Fds |-> IF f \in popped THEN g[f] ELSE DefaultFile]
        : g \in [popped -> Served(scenario)] }

\* recvmsg returning the first k bytes in flight: the descriptors that come
\* with them, and what stays in flight
Arriving(k) == Cardinality({ i \in 1..Len(wire_fds) : wire_fds[i] < k })

Received(k) ==
    /\ wire' = Drop(wire, k)
    /\ wire_fds' = [i \in 1..(Len(wire_fds) - Arriving(k)) |->
                        wire_fds[i + Arriving(k)] - k]

\* the descriptors the keymap events dispatched after k more bytes pop:
\* which ones are popped does not depend on the files behind them
PoppedAfter(k) ==
    LET w == _read_and_dispatch(World("none", [f \in Fds |-> DefaultFile]),
                                SubSeq(wire, 1, k), Arriving(k))
    IN  { w.log[i].fd : i \in 1..Len(w.log) } \ { None }

_bind_seat(w) ==
    LET w1 == [_alloc_id(w) EXCEPT !.m.seat_id = w.m.next_id]
        payload == _pack_uint(w1.m.seat_global_name)
                   \o _pack_string(IFACE_WL_SEAT)
                   \o _pack_uint(SEAT_VERSION)
                   \o _pack_uint(w1.m.seat_id)
    IN  _send(w1, _build_msg(w1.m.registry_id, WL_REGISTRY_BIND, payload))

\* the second display.sync on the callback object of the first
SendSync_ReusesCallback(w) ==
    LET w1 == IF w.m.callback_id # None THEN w
              ELSE [_alloc_id(w) EXCEPT !.m.callback_id = w.m.next_id]
        w2 == _send(w1, _build_msg(WL_DISPLAY_ID, WL_DISPLAY_SYNC,
                                   _pack_uint(w1.m.callback_id)))
    IN  IF w2.exc # "none" THEN w2
        ELSE [w2 EXCEPT !.m.sync_done = FALSE,
                        !.m.pending_sync = w2.m.callback_id]

\* display.sync on a fresh callback, and the roundtrip's bookkeeping
SendSync(w) ==
    LET w1 == [_alloc_id(w) EXCEPT !.m.callback_id = w.m.next_id]
        w2 == _send(w1, _build_msg(WL_DISPLAY_ID, WL_DISPLAY_SYNC,
                                   _pack_uint(w1.m.callback_id)))
    IN  IF w2.exc # "none" THEN w2
        ELSE [w2 EXCEPT !.m.sync_done = FALSE,
                        !.m.pending_sync = w2.m.callback_id]

\* connect() up to its first blocking read
Connect ==
    /\ pc = "new"
    /\ LET w0 == [World("connect", [f \in Fds |-> DefaultFile])
                    EXCEPT !.m.sock = "open"]
           w1 == [_alloc_id(w0) EXCEPT !.m.registry_id = w0.m.next_id]
           w2 == _send(w1, _build_msg(WL_DISPLAY_ID, WL_DISPLAY_GET_REGISTRY,
                                      _pack_uint(w1.m.registry_id)))
       IN  Commit(SendSync(w2))
    /\ pc' = "roundtrip1"
    /\ UNCHANGED << scenario, wire, wire_fds, server_closed >>

\* connect() failing before the handshake: no XDG_RUNTIME_DIR (before the
\* socket exists) or the compositor is not there (after)
ConnectFails ==
    /\ pc = "new"
    /\ \E e \in { "RuntimeError", "OSError" } :
         Commit([World("connect", [f \in Fds |-> DefaultFile])
                    EXCEPT !.exc = e,
                           !.m.sock = IF e = "OSError" THEN "open" ELSE @])
    /\ pc' = "connect_raised"
    /\ UNCHANGED << scenario, wire, wire_fds, server_closed >>

\* connect() going through its second roundtrip whether a seat was seen or not
AfterRead_AlwaysSecondSync(w) ==
    IF w.exc # "none" THEN [ w |-> w, pc |-> "connect_raised" ]
    ELSE IF ~w.m.sync_done THEN [ w |-> w, pc |-> pc ]
    ELSE IF pc = "roundtrip1"
    THEN LET w1 == IF w.m.seat_global_name # None THEN _bind_seat(w) ELSE w
             w2 == IF w1.exc # "none" THEN w1 ELSE SendSync(w1)
         IN  [ w |-> w2,
               pc |-> IF w2.exc # "none" THEN "connect_raised" ELSE "roundtrip2" ]
    ELSE [ w |-> w, pc |-> "running" ]

\* connect() binding the seat and starting the second roundtrip as soon as
\* a seat is known, without waiting for the first callback.done
AfterRead_NoWait(w) ==
    IF w.exc # "none" THEN [ w |-> w, pc |-> "connect_raised" ]
    ELSE IF pc = "roundtrip1" /\ w.m.seat_global_name # None
    THEN LET w1 == _bind_seat(w)
             w2 == IF w1.exc # "none" THEN w1 ELSE SendSync(w1)
         IN  [ w |-> w2,
               pc |-> IF w2.exc # "none" THEN "connect_raised" ELSE "roundtrip2" ]
    ELSE IF ~w.m.sync_done THEN [ w |-> w, pc |-> pc ]
    ELSE [ w |-> w, pc |-> "running" ]

\* connect() after a _read_and_dispatch of one of its roundtrip loops:
\* the exception leaves connect(), the loop goes on while sync_done is
\* unset, the first roundtrip is followed by the bind and the second sync
AfterRead(w) ==
    IF w.exc # "none" THEN [ w |-> w, pc |-> "connect_raised" ]
    ELSE IF ~w.m.sync_done THEN [ w |-> w, pc |-> pc ]
    ELSE IF pc = "roundtrip1" /\ w.m.seat_global_name # None
    THEN LET w1 == _bind_seat(w)
             w2 == IF w1.exc # "none" THEN w1 ELSE SendSync(w1)
         IN  [ w |-> w2,
               pc |-> IF w2.exc # "none" THEN "connect_raised" ELSE "roundtrip2" ]
    ELSE [ w |-> w, pc |-> "running" ]

\* one blocking _read_and_dispatch of connect(): k bytes, or the end of
\* the stream (k = 0) once the compositor has closed and nothing is left
ConnectRead(k) ==
    /\ pc \in { "roundtrip1", "roundtrip2" }
    /\ IF wire = << >> THEN k = 0 /\ server_closed
       ELSE k \in Chunks(scenario, Len(wire))
    /\ \E files \in FileChoices(PoppedAfter(k)) :
         LET w == _read_and_dispatch(World("connect", files),
                                     SubSeq(wire, 1, k), Arriving(k))
             r == AfterRead(w)
         IN  Commit(r.w) /\ pc' = r.pc
    /\ Received(k)
    /\ UNCHANGED << scenario, server_closed >>

\* dispatch(): a non-blocking _read_and_dispatch
Dispatch(k) ==
    /\ pc = "running"
    /\ IF wire = << >> THEN k = 0 ELSE k \in Chunks(scenario, Len(wire))
    /\ IF mon.sock = "none"
       THEN Commit(Raise(World("dispatch", [f \in Fds |-> DefaultFile]),
                         "AttributeError"))
       ELSE IF k = 0 /\ ~server_closed
       THEN Commit(World("dispatch", [f \in Fds |-> DefaultFile]))
       ELSE \E files \in FileChoices(PoppedAfter(k)) :
              Commit(_read_and_dispatch(World("dispatch", files),
                                        SubSeq(wire, 1, k), Arriving(k)))
    /\ Received(k)
    /\ UNCHANGED << scenario, pc, server_closed >>

\* cleanup releasing the context whether or not it still holds one
cleanup_NoGuard(w) == [w EXCEPT !.m.xkb_ctx = FALSE, !.unrefs = @ + 1]

cleanup(w) ==
    IF w.m.xkb_ctx
    THEN [w EXCEPT !.m.xkb_ctx = FALSE, !.unrefs = @ + 1]
    ELSE w

disconnect(w) ==
    LET w1 == cleanup(w)
    IN  IF w1.m.sock # "none"
        THEN [w1 EXCEPT !.m.sock = "none", !.sock_closes = @ + 1]
        ELSE w1

\* disconnect(); what was in flight is gone with the socket
Disconnect ==
    /\ pc \in { "new", "running", "connect_raised" }
    /\ Commit(disconnect(World("disconnect", [f \in Fds |-> DefaultFile])))
    /\ wire' = << >>
    /\ wire_fds' = << >>
    /\ UNCHANGED << scenario, pc, server_closed >>

Init ==
    /\ scenario \in Scenarios
    /\ pc = "new"
    /\ mon \in { NewMonitor(ctx) : ctx \in BOOLEAN }
    /\ out = << >>
    /\ wire = << >>
    /\ wire_fds = << >>
    /\ server_closed = FALSE
    /\ fdtab = [f \in Fds |-> FALSE]
    /\ last = Idle

Next ==
    \/ Connect
    \/ ConnectFails
    \/ \E k \in 0..Room(scenario) : ConnectRead(k)
    \/ \E k \in 0..Room(scenario) : Dispatch(k)
    \/ Disconnect
    \/ \E ev \in Sendable(scenario, mon, pc) : ServerSend(ev)
    \/ ServerClose

Spec == Init /\ [][Next]_vars


(***************************************************************************)
(* Properties.  They read the record of the last call: one log entry per   *)
(* dispatched event.                                                       *)
(***************************************************************************)
Entries == { last.log[i] : i \in 1..Len(last.log) }

IsModifiers(e) ==
    e.handler = "keyboard" /\ e.opcode = WL_KEYBOARD_MODIFIERS /\ Len(e.payload) >= 20

\* a keymap event with both its arguments, which reaches _on_keymap
IsKeymap(e) ==
    e.handler = "keyboard" /\ e.opcode = WL_KEYBOARD_KEYMAP /\ Len(e.payload) >= 8

Format(e) == unpack_u32(e.payload, 0)

\* format 1, an fd, and the mapping succeeds
IsDecodedKeymap(e) ==
    IsKeymap(e) /\ Format(e) = 1 /\ e.fd # None /\ e.file.readable

InList(name, names) == \E i \in 1..Len(names) : names[i] = name

\* C1: every notification carries the resolved name of the state at the time
\* it is delivered (layouts[group] when group < len(layouts), layouts[0] when
\* layouts is non-empty and group is out of range, "??" when layouts is
\* empty), so the name is a member of layouts or "??".
C1_NotifiedNameResolved ==
    \A e \in Entries : \A i \in 1..Len(e.notes) :
        LET names == e.post.layout_names
            group == e.post.current_group
            name == e.notes[i][1]
        IN  /\ (names # << >> /\ group < Len(names)) => name = names[group + 1]
            /\ (names # << >> /\ group >= Len(names)) => name = names[1]
            /\ names = << >> => name = "??"
            /\ (name = "??" \/ InList(name, names))

\* a notification with two layouts known and a group beyond them
C1_Witness ==
    \E e \in Entries :
        /\ e.notes # << >>
        /\ Len(e.post.layout_names) = 2
        /\ e.post.current_group >= 2
        /\ e.notes[1][1] = e.post.layout_names[1]

\* C2: a modifiers event with the stored group changes nothing and notifies
\* nobody; one with another group stores it and delivers exactly one
\* notification (resolved name, the group as received, in range or not).
C2_ModifiersNotifyOnChange ==
    \A e \in Entries :
        IsModifiers(e) =>
            LET group == unpack_u32(e.payload, 16)
            IN  IF group = e.pre.current_group
                THEN e.notes = << >> /\ e.post = e.pre
                ELSE /\ e.post = [e.pre EXCEPT !.current_group = group]
                     /\ Len(e.notes) = 1
                     /\ e.notes[1][2] = group
                     /\ e.notes[1][1] \in
                            { "??" } \cup { e.pre.layout_names[j]
                                              : j \in 1..Len(e.pre.layout_names) }

\* the only layout is "English (US)" and the group becomes 1
C2_Witness ==
    \E e \in Entries :
        /\ IsModifiers(e)
        /\ e.pre.layout_names = << "English (US)" >>
        /\ e.pre.current_group = 0
        /\ e.notes = << << "English (US)", 1 >> >>

\* a modifiers event that repeats the stored group, after a keymap
C2_WitnessSame ==
    \E e \in Entries :
        /\ IsModifiers(e)
        /\ e.pre.layout_names # << >>
        /\ unpack_u32(e.payload, 16) = e.pre.current_group
        /\ e.pre.current_group > 0


\* C3: a keymap event that is decoded (format 1, an fd, the mapping succeeds)
\* replaces layouts with the decoded list, leaves the group as it was and
\* delivers exactly one notification, whether or not the name changed.
C3_KeymapReplacesAndNotifies ==
    \A e \in Entries :
        IsDecodedKeymap(e) =>
            /\ e.post.layout_names = parse(e.pre.xkb_ctx, e.file)
            /\ e.post.current_group = e.pre.current_group
            /\ Len(e.notes) = 1
            /\ e.notes[1][2] = e.pre.current_group

\* a decoded keymap while the group is 1, which notifies the name that the
\* state before it resolved to
C3_Witness ==
    \E e \in Entries :
        /\ IsDecodedKeymap(e)
        /\ e.pre.current_group = 1
        /\ e.pre.layout_names # << >>
        /\ e.post.layout_names # e.pre.layout_names
        /\ e.notes = << << ResolvedName(e.pre.layout_names, 1), 1 >> >>

\* C4: a keymap event that is rejected (a format other than 1, or no fd to
\* pop) leaves layouts and group as they were and notifies nobody; the fd
\* the handler popped for it, if any, is closed.
C4_RejectedKeymapChangesNothing ==
    \A e \in Entries :
        (IsKeymap(e) /\ (Format(e) # 1 \/ e.fd = None)) =>
            /\ e.post.layout_names = e.pre.layout_names
            /\ e.post.current_group = e.pre.current_group
            /\ e.notes = << >>
            /\ e.fd # None => (e.closed = << e.fd >> /\ ~e.open_after)
            /\ e.fd = None => e.closed = << >>

\* format 0 with an fd, after a keymap has been accepted
C4_Witness ==
    \E e \in Entries :
        /\ IsKeymap(e)
        /\ Format(e) = 0
        /\ e.fd # None
        /\ e.pre.layout_names # << >>
        /\ e.closed = << e.fd >>

\* a keymap event with no fd to pop
C4_WitnessNoFd ==
    \E e \in Entries : IsKeymap(e) /\ Format(e) = 1 /\ e.fd = None

\* C5: the fd popped for a keymap event is closed exactly once by the time
\* _on_keymap returns, on each of its paths (format not 1, the mapping or the
\* decoding fails, success), and is not open afterwards.
C5_KeymapFdClosedOnce ==
    \A e \in Entries :
        (IsKeymap(e) /\ e.fd # None) =>
            /\ e.exc = "none"
            /\ e.closed = << e.fd >>
            /\ ~e.open_after
            /\ \A i \in 1..Len(e.post.recv_fds) : e.post.recv_fds[i] # e.fd

\* the mapping of a format-1 keymap fails while another fd stays queued
C5_Witness ==
    \E e \in Entries :
        /\ IsKeymap(e)
        /\ Format(e) = 1
        /\ e.fd # None
        /\ ~e.file.readable
        /\ e.post.recv_fds # << >>
        /\ e.closed = << e.fd >>

\* C6: after a decoded keymap event layouts is non-empty, whichever way it
\* was decoded, and the notification does not carry "??".
C6_DecodedLayoutsNonEmpty ==
    \A e \in Entries :
        IsDecodedKeymap(e) =>
            /\ e.post.layout_names # << >>
            /\ \A i \in 1..Len(e.notes) : e.notes[i][1] # "??"


\* C7: when the compositor closes the socket during the first roundtrip,
\* after a wl_seat has been announced and before callback.done, connect()
\* ends and reports ConnectionLost.
C7_EofEndsConnect ==
    (/\ last.op = "connect"
     /\ last.eof
     /\ mon.seat_global_name # None
     /\ mon.seat_id = None)
        => (pc = "connect_raised" /\ last.exc = "ConnectionLost")

\* the receive buffer starts with a header whose size field is below 8
BadFrameBuffered ==
    /\ Len(mon.recv_buf) >= HEADER_SIZE
    /\ unpack_u32(mon.recv_buf, 4) \div 65536 < HEADER_SIZE

\* C8: a dispatch() that meets a frame whose declared size is below 8 raises
\* ProtocolError; it does not return normally with the bytes still buffered.
C8_BadFrameRaises ==
    (last.op = "dispatch" /\ BadFrameBuffered) => last.exc = "ProtocolError"

\* C9: in steady state, a dispatch() that finds the socket closed by the
\* peer reports ConnectionLost and the engine stops.
C9_PeerClosedStops ==
    (last.op = "dispatch" /\ last.eof)
        => (last.exc = "ConnectionLost" /\ mon.sock = "none")

\* a registry.global event that announces a wl_seat
IsSeatGlobal(e) ==
    /\ e.handler = "registry"
    /\ e.opcode = WL_REGISTRY_GLOBAL
    /\ e.exc = "none"
    /\ Slice(e.payload, 8, 8 + unpack_u32(e.payload, 4) - 1) = IFACE_WL_SEAT

\* the global name in the registry.bind request, the third request sent
BoundName == unpack_u32(out[3], 8)

\* C10 as stated: once a wl_seat has been announced, a later announcement
\* does not replace the remembered global name.
C10_FirstSeatWins ==
    \A e \in Entries :
        (IsSeatGlobal(e) /\ e.pre.seat_global_name # None)
            => e.post.seat_global_name = e.pre.seat_global_name

\* C10 as amended: every wl_seat announcement replaces the remembered global
\* name with its own, and registry.bind names the global remembered when the
\* first roundtrip completes, the last one announced before it.
C10_LastSeatWins ==
    /\ \A e \in Entries :
           IsSeatGlobal(e) => e.post.seat_global_name = unpack_u32(e.payload, 0)
    /\ (last.op = "connect" /\ pc = "roundtrip2" /\ last.nsent = 2)
           => (/\ Len(out) = 4
               /\ BoundName = mon.seat_global_name
               /\ \A i \in 1..Len(last.log) :
                      (/\ IsSeatGlobal(last.log[i])
                       /\ \A j \in (i + 1)..Len(last.log) : ~IsSeatGlobal(last.log[j]))
                          => BoundName = unpack_u32(last.log[i].payload, 0))

\* seat 8 is announced after seat 7 and replaces it
C10_Witness ==
    \E e \in Entries :
        /\ IsSeatGlobal(e)
        /\ e.pre.seat_global_name = 7
        /\ e.pre.seat_id = None
        /\ e.post.seat_global_name = 8


(***************************************************************************)
(* Requests, as found in `out`.  Every request of the client ends with the *)
(* new_id it creates.                                                      *)
(***************************************************************************)
NewId(req) == unpack_u32(req, Len(req) - 4)

ReqObject(req) == unpack_u32(req, 0)

ReqOpcode(req) == unpack_u32(req, 4) % 65536

IsGetRegistry(req) ==
    ReqObject(req) = WL_DISPLAY_ID /\ ReqOpcode(req) = WL_DISPLAY_GET_REGISTRY

IsSync(req) ==
    ReqObject(req) = WL_DISPLAY_ID /\ ReqOpcode(req) = WL_DISPLAY_SYNC

IsBind(req) ==
    /\ ReqObject(req) = mon.registry_id
    /\ ReqOpcode(req) = WL_REGISTRY_BIND
    /\ Len(req) = 32

IsGetKeyboard(req) ==
    /\ ReqObject(req) = mon.seat_id
    /\ ReqOpcode(req) = WL_SEAT_GET_KEYBOARD
    /\ Len(req) = 12

\* the object IDs the routing of _handle_event compares with
LiveIds ==
    { mon.registry_id, mon.seat_id, mon.keyboard_id, mon.callback_id } \ { None }

\* C11 as stated: in the handshake by the book with the single wl_seat 7,
\* the seat is bound as object 3 and the keyboard is created as object 4.
C11_SeatThreeKeyboardFour ==
    scenario = "layouts" =>
        /\ mon.seat_id # None => mon.seat_id = 3
        /\ mon.keyboard_id # None => mon.keyboard_id = 4

\* C11 as amended: the registry is object 2 and the first sync callback
\* object 3, so the seat is bound as object 4; the second sync callback is
\* object 5, so get_keyboard creates the keyboard as object 6.
C11_SeatFourKeyboardSix ==
    /\ mon.seat_id # None =>
          /\ mon.seat_id = 4
          /\ Len(out) >= 3 => (IsBind(out[3]) /\ NewId(out[3]) = 4)
    /\ mon.keyboard_id # None =>
          /\ mon.keyboard_id = 6
          /\ Len(out) >= 5 => (IsGetKeyboard(out[5]) /\ NewId(out[5]) = 6)
    /\ (scenario = "layouts" /\ Len(out) >= 3) => unpack_u32(out[3], 8) = 7

\* the handshake by the book is over and the keyboard exists
C11_Witness ==
    /\ scenario = "layouts"
    /\ pc = "running"
    /\ Len(out) = 5
    /\ mon.seat_id = 4
    /\ mon.keyboard_id = 6

\* C12: the IDs the client hands out (registry, sync callbacks, seat,
\* keyboard) are strictly increasing in the order of the requests that
\* create them, all at least 2 and below the next ID to hand out, so none is
\* handed out twice; the IDs the routing knows are pairwise distinct and
\* none is the display's ID 1, so an event's ID selects at most one handler.
C12_IdsIncreaseAndDistinct ==
    /\ \A i, j \in 1..Len(out) : i < j => NewId(out[i]) < NewId(out[j])
    /\ \A i \in 1..Len(out) :
           NewId(out[i]) >= FIRST_ID /\ NewId(out[i]) < mon.next_id
    /\ \A id \in LiveIds : id >= FIRST_ID /\ id < mon.next_id /\ id # WL_DISPLAY_ID
    /\ Cardinality(LiveIds) =
           Cardinality({ f \in { "registry_id", "seat_id", "keyboard_id",
                                 "callback_id" } : mon[f] # None })
    /\ \A e \in Entries : e.post.next_id >= e.pre.next_id

\* all five IDs of a connection have been handed out
C12_Witness ==
    /\ Len(out) = 5
    /\ mon.next_id = 7
    /\ Cardinality(LiveIds) = 4
    /\ { NewId(out[i]) : i \in 1..5 } = 2..6

\* the callback.done that ends the first roundtrip
IsFirstDone(e) ==
    /\ e.handler = "callback"
    /\ e.opcode = WL_CALLBACK_DONE
    /\ ~e.pre.sync_done
    /\ e.pre.seat_id = None

\* C13 as stated: when no wl_seat has been announced before the first
\* callback.done is dispatched, connect() returns after that roundtrip with
\* two requests sent (no registry.bind, no second display.sync), and with no
\* seat bound no call ever delivers a notification.
C13_NoSeatBeforeDone ==
    /\ (/\ last.op = "connect"
        /\ last.exc = "none"
        /\ \E e \in Entries : IsFirstDone(e) /\ e.pre.seat_global_name = None)
           => (pc = "running" /\ Len(out) = 2 /\ mon.seat_id = None)
    /\ (pc = "running" /\ mon.seat_id = None) => last.notes = << >>

\* C13 as amended: the seat is looked up when the roundtrip loop exits, after
\* every message of the read that carried the first callback.done.  With no
\* wl_seat announced by then connect() returns with two requests sent; with
\* one announced, even behind the done, it binds it and starts the second
\* roundtrip.  With no seat bound nothing routes to the seat or the
\* keyboard, layouts and group keep their initial values and no call
\* delivers a notification, whatever the compositor sends.
C13_NoSeatWhenLoopExits ==
    /\ (/\ last.op = "connect"
        /\ last.exc = "none"
        /\ \E e \in Entries : IsFirstDone(e))
           => IF mon.seat_global_name = None
              THEN pc = "running" /\ Len(out) = 2 /\ mon.seat_id = None
              ELSE pc = "roundtrip2" /\ Len(out) = 4 /\ mon.seat_id # None
    /\ (pc = "running" /\ mon.seat_id = None) =>
           /\ Len(out) = 2
           /\ mon.keyboard_id = None
           /\ mon.layout_names = << >>
           /\ mon.current_group = 0
           /\ last.notes = << >>
           /\ \A e \in Entries :
                  e.handler \notin { "seat", "keyboard" } /\ e.sent = << >>

\* connected without a seat, and a wl_seat is announced afterwards
C13_Witness ==
    /\ pc = "running"
    /\ Len(out) = 2
    /\ last.op = "dispatch"
    /\ \E e \in Entries : IsSeatGlobal(e) /\ e.post.seat_global_name # None

\* the positions of the display.sync requests in `out`
SyncsSent == { i \in 1..Len(out) : IsSync(out[i]) }

\* the callback of the latest display.sync
LatestSync == NewId(out[CHOOSE i \in SyncsSent : \A j \in SyncsSent : j <= i])

\* callback.done for the sync whose callback is `id`, taken as such
IsDoneOf(e, id) ==
    e.handler = "callback" /\ e.opcode = WL_CALLBACK_DONE /\ e.obj_id = id

\* C14: at most two display.sync are ever sent and at most one is
\* unanswered: while the first is pending no second has been sent; the call
\* that sends the second has dispatched the callback.done of the first
\* before; and the one pending sync ID the client tracks is the callback of
\* the latest display.sync.
C14_OneSyncOutstanding ==
    /\ Cardinality(SyncsSent) <= 2
    /\ pc = "roundtrip1" => (Cardinality(SyncsSent) = 1 /\ ~mon.sync_done)
    /\ pc = "roundtrip2" => (Cardinality(SyncsSent) = 2 /\ ~mon.sync_done)
    /\ (pc = "running" /\ last.exc = "none") => mon.sync_done
    /\ (/\ last.op = "connect"
        /\ \E k \in SyncsSent : k > 2 /\ k > Len(out) - last.nsent) =>
           \E i \in 1..Len(last.log) :
               /\ IsDoneOf(last.log[i], NewId(out[2]))
               /\ last.log[i].post.sync_done
               /\ \A j \in 1..Len(last.log) : last.log[j].sent = << >>
    /\ SyncsSent # { } =>
           /\ mon.pending_sync = LatestSync
           /\ last.exc = "none" => mon.callback_id = mon.pending_sync

\* the first sync has been answered and the second is the one outstanding
C14_Witness ==
    /\ pc = "roundtrip2"
    /\ last.op = "connect"
    /\ last.nsent = 2
    /\ Cardinality(SyncsSent) = 2
    /\ mon.pending_sync = 5
    /\ ~mon.sync_done

\* C15: disconnect() raises nothing and leaves the monitor without socket
\* and without XKB context, having closed the socket and released the
\* context at most once each; a disconnect() that follows a disconnect()
\* changes nothing and releases nothing.
C15_DisconnectIdempotent ==
    [][ last'.op = "disconnect" =>
          /\ last'.exc = "none"
          /\ mon'.sock = "none"
          /\ ~mon'.xkb_ctx
          /\ last'.unrefs = IF mon.xkb_ctx THEN 1 ELSE 0
          /\ last'.sock_closes = IF mon.sock # "none" THEN 1 ELSE 0
          /\ last.op = "disconnect" =>
                /\ mon' = mon
                /\ fdtab' = fdtab
                /\ out' = out
                /\ last'.unrefs = 0
                /\ last'.sock_closes = 0
      ]_vars

\* a disconnect() with nothing to release, on a monitor that had connected
C15_Witness ==
    /\ pc = "running"
    /\ last.op = "disconnect"
    /\ last.exc = "none"
    /\ last.unrefs = 0
    /\ last.sock_closes = 0

\* C16: after disconnect() the socket is closed, the XKB context released,
\* and no descriptor received over the connection is open, queued or not.
C16_NothingHeldAfterDisconnect ==
    last.op = "disconnect" =>
        /\ mon.sock = "none"
        /\ ~mon.xkb_ctx
        /\ \A f \in Fds : ~fdtab[f]

\* the bytes of the message a log entry was made of
FrameOf(e) == Frame(e.obj_id, e.opcode, HEADER_SIZE + Len(e.payload), e.payload)

RECURSIVE FramesOf(_)
FramesOf(log) ==
    IF log = << >> THEN << >> ELSE FrameOf(Head(log)) \o FramesOf(Tail(log))

DeclaredSize(buf) == unpack_u32(buf, 4) \div 65536

\* the buffer starts with a whole message
HoldsMessage(buf) ==
    /\ Len(buf) >= HEADER_SIZE
    /\ DeclaredSize(buf) >= HEADER_SIZE
    /\ Len(buf) >= DeclaredSize(buf)

\* C17: in every read, the bytes buffered before it followed by the bytes it
\* receives are exactly the messages it dispatches, in the order dispatched,
\* followed by the bytes it leaves buffered: no byte is dropped, repeated or
\* reordered wherever the stream is cut, and a partial message stays in
\* front of what arrives next.  A read that receives bytes and returns
\* normally leaves no whole message at the front of the buffer, and no
\* handler touches the buffer.
C17_FramingGreedyInOrder ==
    [][ last'.op \in { "connect", "dispatch" } =>
          LET data == SubSeq(wire, 1, Len(wire) - Len(wire'))
          IN  /\ mon.recv_buf \o data = FramesOf(last'.log) \o mon'.recv_buf
              /\ (data # << >> /\ last'.exc = "none") => ~HoldsMessage(mon'.recv_buf)
              /\ \A i \in 1..Len(last'.log) :
                     /\ last'.log[i].post.recv_buf = last'.log[i].pre.recv_buf
                     /\ i < Len(last'.log) =>
                            last'.log[i].pre.recv_buf =
                                FrameOf(last'.log[i + 1])
                                    \o last'.log[i + 1].pre.recv_buf
      ]_vars

\* a read cut inside the third message: two dispatched, the rest buffered
C17_Witness ==
    /\ scenario = "stream"
    /\ last.op = "dispatch"
    /\ last.exc = "none"
    /\ Len(last.log) = 2
    /\ mon.recv_buf # << >>
    /\ ~BadFrameBuffered
    /\ mon.recv_buf \o wire # mon.recv_buf
    /\ HoldsMessage(mon.recv_buf \o wire)

\* a keyboard.keymap event, whatever its arguments
IsKeymapEvent(e) == e.handler = "keyboard" /\ e.opcode = WL_KEYBOARD_KEYMAP

\* C18 as stated: every keymap event dispatched consumes an fd, the oldest
\* one queued, so that the k-th keymap event consumes the k-th fd received;
\* no other event changes the queue.
C18_KthKeymapKthFd ==
    \A e \in Entries :
        IF IsKeymapEvent(e)
        THEN /\ e.fd # None
             /\ e.fd = Head(e.pre.recv_fds)
             /\ e.post.recv_fds = Tail(e.pre.recv_fds)
        ELSE e.fd = None /\ e.post.recv_fds = e.pre.recv_fds

\* C18 as amended: a read appends the fds it receives behind those queued,
\* in the order received, before it dispatches anything; a keymap event that
\* finds the queue non-empty removes its head, the oldest fd; a keymap event
\* that finds it empty consumes nothing, and later keymap events are one fd
\* behind; no other event changes the queue.  So the k-th keymap event that
\* consumes an fd consumes the k-th fd received.
C18_FdsFifo ==
    [][ last'.op \in { "connect", "dispatch" } =>
          LET log == last'.log
              arrived == Len(wire_fds) - Len(wire_fds')
              queued == IF log = << >> THEN mon'.recv_fds ELSE log[1].pre.recv_fds
          IN  /\ Len(queued) = Len(mon.recv_fds) + arrived
              /\ SubSeq(queued, 1, Len(mon.recv_fds)) = mon.recv_fds
              /\ \A i \in (Len(mon.recv_fds) + 1)..Len(queued) :
                     /\ ~fdtab[queued[i]]
                     /\ i < Len(queued) => queued[i] < queued[i + 1]
              /\ \A i \in 1..Len(log) :
                     /\ IF /\ IsKeymapEvent(log[i])
                           /\ Len(log[i].payload) >= 4
                           /\ log[i].pre.recv_fds # << >>
                        THEN /\ log[i].fd = Head(log[i].pre.recv_fds)
                             /\ log[i].post.recv_fds = Tail(log[i].pre.recv_fds)
                        ELSE /\ log[i].fd = None
                             /\ log[i].post.recv_fds = log[i].pre.recv_fds
                     /\ i < Len(log) =>
                            log[i + 1].pre.recv_fds = log[i].post.recv_fds
              /\ log # << >> => mon'.recv_fds = log[Len(log)].post.recv_fds
      ]_vars

\* one keymap event came with two fds: it consumes the first and leaves the
\* second queued
C18_Witness ==
    \E e \in Entries :
        /\ IsKeymapEvent(e)
        /\ Len(e.pre.recv_fds) >= 2
        /\ e.fd = e.pre.recv_fds[1]
        /\ e.post.recv_fds = Tail(e.pre.recv_fds)
        /\ mon.recv_fds = e.post.recv_fds

\* the requests the last call sent
SentByLast == { i \in 1..Len(out) : i > Len(out) - last.nsent }

\* C19: the requests leave in the order get_registry, sync, bind, sync,
\* get_keyboard and no others; the bind names a wl_seat global at version 5,
\* the one remembered, and is sent by the call of connect() that dispatched
\* the first callback.done, together with the second sync; get_keyboard is
\* sent by the handler of a seat.capabilities event with the keyboard bit,
\* on the seat the bind created, and by nothing else.
C19_RequestOrder ==
    /\ Len(out) <= 5
    /\ Len(out) >= 1 => (IsGetRegistry(out[1]) /\ NewId(out[1]) = mon.registry_id)
    /\ Len(out) >= 2 => IsSync(out[2])
    /\ Len(out) >= 3 =>
           /\ IsBind(out[3])
           /\ unpack_u32(out[3], 8) \in SeatNames
           /\ unpack_u32(out[3], 12) = Len(IFACE_WL_SEAT) + 1
           /\ Slice(out[3], 16, 16 + Len(IFACE_WL_SEAT)) = IFACE_WL_SEAT
           /\ unpack_u32(out[3], 24) = SEAT_VERSION
           /\ NewId(out[3]) = mon.seat_id
    /\ Len(out) >= 4 => IsSync(out[4])
    /\ Len(out) >= 5 => (IsGetKeyboard(out[5]) /\ NewId(out[5]) = mon.keyboard_id)
    /\ 3 \in SentByLast =>
           /\ last.op = "connect"
           /\ 4 \in SentByLast
           /\ unpack_u32(out[3], 8) = mon.seat_global_name
           /\ \E e \in Entries : IsDoneOf(e, NewId(out[2])) /\ e.post.sync_done
           /\ \A e \in Entries : e.sent = << >>
    /\ \A e \in Entries :
           e.sent # << >> =>
               /\ e.handler = "seat"
               /\ e.opcode = WL_SEAT_CAPABILITIES
               /\ (unpack_u32(e.payload, 0) \div WL_SEAT_CAP_KEYBOARD) % 2 = 1
               /\ e.pre.seat_id # None
               /\ e.pre.keyboard_id = None
               /\ Len(out) = 5
               /\ e.sent = << out[5] >>
    /\ (last.op # "connect" \/ pc # "roundtrip1") =>
           Cardinality(SentByLast) =
               Cardinality({ e \in Entries : e.sent # << >> })
                 + (IF 3 \in SentByLast THEN 2 ELSE 0)

\* the call that dispatches seat.capabilities and sends get_keyboard, the
\* fifth request
C19_Witness ==
    /\ Len(out) = 5
    /\ last.nsent = 1
    /\ \E e \in Entries :
           e.handler = "seat" /\ e.opcode = WL_SEAT_CAPABILITIES /\ e.sent = << out[5] >>

\* C20: sync_done is set only by a callback.done addressed to the pending
\* sync ID; connect() returns only in a call that dispatched such a done for
\* its latest sync; a done addressed to the first callback while the second
\* is pending is routed nowhere and changes nothing.
C20_OnlyPendingDoneCompletes ==
    /\ \A e \in Entries :
           /\ (~e.pre.sync_done /\ e.post.sync_done) => IsDoneOf(e, e.pre.pending_sync)
           /\ (/\ Len(out) >= 4
               /\ e.obj_id = NewId(out[2])
               /\ e.pre.pending_sync = NewId(out[4])) =>
                  /\ e.handler = "dropped"
                  /\ e.post = e.pre
                  /\ e.notes = << >>
                  /\ e.sent = << >>
                  /\ e.exc = "none"
    /\ (last.op = "connect" /\ pc = "running") =>
           \E e \in Entries : IsDoneOf(e, LatestSync) /\ ~e.pre.sync_done

\* the second roundtrip goes on after a done for the first callback
C20_Witness ==
    /\ pc = "roundtrip2"
    /\ last.op = "connect"
    /\ ~mon.sync_done
    /\ \E e \in Entries :
           /\ e.obj_id = 3
           /\ e.opcode = WL_CALLBACK_DONE
           /\ e.pre.pending_sync = 5
           /\ e.handler = "dropped"

\* a seat.capabilities event for the bound seat
IsCapabilities(e) ==
    /\ e.pre.seat_id # None
    /\ e.obj_id = e.pre.seat_id
    /\ e.opcode = WL_SEAT_CAPABILITIES
    /\ Len(e.payload) >= 4

\* bit 1 (value 2) of its argument
KeyboardBit(e) == (unpack_u32(e.payload, 0) \div WL_SEAT_CAP_KEYBOARD) % 2 = 1

\* the seat.get_keyboard requests in `out`
KeyboardsRequested == { i \in 1..Len(out) : IsGetKeyboard(out[i]) }

\* C21: a seat.capabilities event with the keyboard bit set, dispatched while
\* no keyboard object exists, creates one with a fresh ID and sends
\* get_keyboard for it; any other capabilities event (bit clear, or a
\* keyboard exists) changes nothing and sends nothing; no other event sends
\* get_keyboard; a keyboard ID once set is never replaced, and `out` holds at
\* most one get_keyboard.
C21_OneKeyboard ==
    /\ Cardinality(KeyboardsRequested) <= 1
    /\ \A e \in Entries :
           /\ IsCapabilities(e) =>
                  IF KeyboardBit(e) /\ e.pre.keyboard_id = None
                  THEN /\ e.post = [e.pre EXCEPT !.keyboard_id = e.pre.next_id,
                                                 !.next_id = @ + 1]
                       /\ e.exc = "none" =>
                              e.sent = << _build_msg(e.pre.seat_id, WL_SEAT_GET_KEYBOARD,
                                                     _pack_uint(e.pre.next_id)) >>
                       /\ e.exc # "none" => e.sent = << >>
                  ELSE e.post = e.pre /\ e.sent = << >>
           /\ ~IsCapabilities(e) =>
                  \A i \in 1..Len(e.sent) : ReqOpcode(e.sent[i]) # WL_SEAT_GET_KEYBOARD
                                            \/ ReqObject(e.sent[i]) # mon.seat_id
           /\ e.pre.keyboard_id # None => e.post.keyboard_id = e.pre.keyboard_id

\* capabilities with the keyboard bit again, after the bit had been cleared,
\* while the keyboard exists
C21_Witness ==
    \E i, j \in 1..Len(last.log) :
        /\ i < j
        /\ IsCapabilities(last.log[i])
        /\ ~KeyboardBit(last.log[i])
        /\ last.log[i].pre.keyboard_id # None
        /\ IsCapabilities(last.log[j])
        /\ KeyboardBit(last.log[j])
        /\ last.log[j].sent = << >>
        /\ Cardinality(KeyboardsRequested) = 1

\* the compositor answered in order, as far as the last call shows: the
\* call dispatched seat.capabilities with the keyboard bit before the
\* callback.done of the latest sync, or an earlier read had dispatched such
\* an event (only such an event creates a keyboard: C21)
AnsweredInOrder ==
    \/ \E i, j \in 1..Len(last.log) :
           /\ i < j
           /\ IsCapabilities(last.log[i])
           /\ KeyboardBit(last.log[i])
           /\ IsDoneOf(last.log[j], LatestSync)
    \/ last.log # << >> /\ last.log[1].pre.keyboard_id # None

\* C22: every seat.capabilities event with the keyboard bit dispatched for
\* the bound seat leaves a keyboard object behind, during the second
\* roundtrip as well as later, and get_keyboard goes out with it unless the
\* compositor has closed; so when connect() returns after the compositor
\* answered in order, the keyboard exists and get_keyboard is the fifth
\* request sent.
C22_KeyboardByReturn ==
    /\ \A e \in Entries :
           (IsCapabilities(e) /\ KeyboardBit(e)) =>
               /\ e.post.keyboard_id # None
               /\ (e.pre.keyboard_id = None /\ e.exc = "none") => Len(e.sent) = 1
    /\ (mon.keyboard_id # None /\ ~server_closed) =>
           (Len(out) = 5 /\ IsGetKeyboard(out[5]))
    /\ (/\ last.op = "connect"
        /\ last.exc = "none"
        /\ pc = "running"
        /\ AnsweredInOrder) =>
           /\ mon.keyboard_id # None
           /\ Len(out) = 5
           /\ IsGetKeyboard(out[5])
           /\ NewId(out[5]) = mon.keyboard_id

\* connect() returns from a read that carried seat.capabilities and then
\* the callback.done of the second sync
C22_Witness ==
    /\ last.op = "connect"
    /\ last.exc = "none"
    /\ pc = "running"
    /\ Len(last.log) = 2
    /\ IsCapabilities(last.log[1])
    /\ last.log[1].pre.keyboard_id = None
    /\ IsDoneOf(last.log[2], 5)
    /\ mon.keyboard_id = 6

\* an event the client has no use for: one for an object ID it does not
\* know, display.error (well-formed), display.delete_id, registry
\* global_remove, seat.name, keyboard enter, leave, key and repeat_info, or
\* an opcode its interface does not have
IsIgnored(e) ==
    \/ e.handler = "dropped"
    \/ e.handler = "display"
         /\ (e.opcode = WL_DISPLAY_ERROR => CanUnpack(e.payload, 0, 3))
    \/ e.handler = "registry" /\ e.opcode # WL_REGISTRY_GLOBAL
    \/ e.handler = "seat" /\ e.opcode # WL_SEAT_CAPABILITIES
    \/ e.handler = "keyboard"
         /\ e.opcode \notin { WL_KEYBOARD_KEYMAP, WL_KEYBOARD_MODIFIERS }
    \/ e.handler = "callback" /\ e.opcode # WL_CALLBACK_DONE

\* C23: an ignored event is taken off the buffer and changes no field of
\* the monitor (layouts, group, fd queue, IDs), pops and closes no fd, sends
\* no request, delivers no notification and raises nothing; a whole message
\* buffered behind it is dispatched by the same read.
C23_IgnoredEventsChangeNothing ==
    \A i \in 1..Len(last.log) :
        LET e == last.log[i]
        IN  IsIgnored(e) =>
                /\ e.post = e.pre
                /\ e.fd = None
                /\ e.closed = << >>
                /\ e.sent = << >>
                /\ e.notes = << >>
                /\ e.exc = "none"
                /\ HoldsMessage(e.post.recv_buf) => i < Len(last.log)
                /\ i < Len(last.log) =>
                       e.post.recv_buf = FrameOf(last.log[i + 1])
                                           \o last.log[i + 1].pre.recv_buf

\* an event with an unknown opcode reaches the keyboard while layouts are
\* known, and the keymap event behind it is decoded and notified
C23_Witness ==
    \E i \in 1..(Len(last.log) - 1) :
        /\ IsIgnored(last.log[i])
        /\ last.log[i].handler = "keyboard"
        /\ last.log[i].opcode = UnknownOpcode
        /\ last.log[i].pre.layout_names # << >>
        /\ IsDecodedKeymap(last.log[i + 1])
        /\ last.log[i + 1].notes # << >>

\* an event for an unknown object is dropped while an fd is queued
C23_WitnessQueuedFd ==
    \E e \in Entries :
        /\ IsIgnored(e)
        /\ e.handler = "dropped"
        /\ e.pre.recv_fds # << >>

====
